---- MODULE Spec2Model ----
(***************************************************************************)
(* A model of scrapy/contrib/downloadermiddleware/httpcache.py:            *)
(* HttpCacheMiddleware (the interception policy) and                       *)
(* FilesystemCacheStorage (the on-disk storage engine).                    *)
(*                                                                         *)
(* The file system is modelled at the level the code uses it: a record     *)
(* directory with a modification time and six named files.  As on POSIX,   *)
(* the modification time of a directory changes when an entry is created   *)
(* in it or removed from it, and not when an existing file is rewritten.   *)
(***************************************************************************)
EXTENDS Integers, Sequences, FiniteSets, TLC

\* ------------------------------------------------------------------ bounds

\* The clock runs over 0..MaxTime (seconds).
MaxTime == 3

\* The largest HTTPCACHE_EXPIRATION_SECS tried; -1 (never expire) is tried too.
MaxExpiration == 1

\* ------------------------------------------------------------- the data

\* A url is <<scheme, rest>>.
UrlA == <<"http", "example.test/a">>
UrlB == <<"https", "example.test/b">>
UrlF == <<"ftp", "example.test/c">>

\* Header blocks, as Headers objects: a sequence of <<name, values>>.
NoHeaders == <<>>
HtmlHeaders == << <<"Content-Type", <<"text/html">> >> >>

\* Bodies are byte strings.
NoBody == <<>>
HiBody == <<104, 105>>

ReqA == [url |-> UrlA, method |-> "GET", headers |-> NoHeaders, body |-> NoBody]
ReqB == [url |-> UrlB, method |-> "GET", headers |-> HtmlHeaders, body |-> NoBody]
ReqF == [url |-> UrlF, method |-> "GET", headers |-> NoHeaders, body |-> NoBody]

Requests == {ReqA, ReqB, ReqF}

\* Responses the downloader (or a later middleware) may hand to the cache.
Resp200 == [url |-> UrlA, status |-> 200, headers |-> HtmlHeaders,
            body |-> HiBody, flags |-> <<>>]
Resp404 == [url |-> UrlB, status |-> 404, headers |-> NoHeaders,
            body |-> NoBody, flags |-> <<"cached">>]

Responses == {Resp200, Resp404}

\* The placeholder in a result that carries no response.
NoResponse == [url |-> <<"", "">>, status |-> 0, headers |-> NoHeaders,
               body |-> NoBody, flags |-> <<>>]

Spiders == {"s1"}
\* Every spider name that has a directory under the cache directory.
Namespaces == Spiders \cup {"s2"}

CacheDir == "cachedir"

\* urlparse_cached(request).scheme
urlparse_scheme(request) == request.url[1]

\* request_fingerprint(request): a deterministic hash of the request, here a
\* three-character key; the keys of ReqA and ReqB share their first two
\* characters.
request_fingerprint(request) ==
    CASE request.url = UrlA -> <<"a", "b", "1">>
      [] request.url = UrlB -> <<"a", "b", "2">>
      [] OTHER -> <<"c", "d", "3">>

\* headers_dict_to_raw(headers): one line <<name, value>> per value.
RECURSIVE headers_dict_to_raw(_)
headers_dict_to_raw(headers) ==
    IF headers = <<>> THEN <<>>
    ELSE LET h == Head(headers)
         IN  [i \in 1..Len(h[2]) |-> <<h[1], h[2][i]>>]
                 \o headers_dict_to_raw(Tail(headers))

\* headers_raw_to_dict(raw), then Headers(...): the lines grouped by name, a
\* later line of a name adding its value to that name's list.
RECURSIVE headers_raw_to_dict(_)
headers_raw_to_dict(raw) ==
    IF raw = <<>> THEN <<>>
    ELSE LET rest == headers_raw_to_dict(SubSeq(raw, 1, Len(raw) - 1))
             line == raw[Len(raw)]
             at == {i \in 1..Len(rest) : rest[i][1] = line[1]}
         IN  IF at = {} THEN Append(rest, <<line[1], <<line[2]>> >>)
             ELSE LET i == CHOOSE j \in at : TRUE
                  IN  [rest EXCEPT ![i] = <<line[1], Append(rest[i][2], line[2])>>]

\* pickle.dump(metadata, f, protocol=2): the protocol header, the pickled
\* dictionary and the STOP opcode.
pickle_dump(metadata) == << <<"PROTO", 2>>, <<"DICT", metadata>>, <<"STOP", 0>> >>

\* pickle.load(f) succeeds on a whole pickle only.
pickle_ok(data) == Len(data) = 3 /\ data[3][1] = "STOP"
pickle_load(data) == data[2][2]

\* repr(metadata)
repr(metadata) == << <<"REPR", metadata>> >>

\* ------------------------------------------------------ the file system

FileNames == {"meta", "pickled_meta", "response_headers", "response_body",
              "request_headers", "request_body"}

NoFile == [present |-> FALSE, data |-> <<>>]
NoDir == [exists |-> FALSE, mtime |-> 0, files |-> [f \in FileNames |-> NoFile]]

\* _get_request_path that stops at the shard directory.
get_request_path_shard(spider, request) ==
    LET key == request_fingerprint(request)
    IN  <<CacheDir, spider, SubSeq(key, 1, 2), SubSeq(key, 1, 2)>>

\* FilesystemCacheStorage._get_request_path
get_request_path(spider, request) ==
    LET key == request_fingerprint(request)
    IN  <<CacheDir, spider, SubSeq(key, 1, 2), key>>

\* is_cacheable with a scheme too many in the allow-list.
is_cacheable_ftp(request) == urlparse_scheme(request) \in {"http", "https", "ftp"}

\* HttpCacheMiddleware.is_cacheable
is_cacheable(request) == urlparse_scheme(request) \in {"http", "https"}

Paths == {get_request_path(s, r) : s \in Namespaces, r \in Requests}

\* os.path.exists(rpath)
fs_exists(d, rpath) == d[rpath].exists

\* os.path.exists(join(rpath, name))
fs_exists_file(d, rpath, name) == d[rpath].exists /\ d[rpath].files[name].present

\* os.makedirs(rpath): a new, empty directory.
fs_makedirs(d, rpath, t) ==
    [d EXCEPT ![rpath] = [exists |-> TRUE, mtime |-> t,
                          files |-> [f \in FileNames |-> NoFile]]]

\* open(join(rpath, name), 'wb'): the file is created empty, which changes the
\* directory's modification time, or an existing file is cut to length 0,
\* which does not.
fs_open_wb(d, rpath, name, t) ==
    [d EXCEPT ![rpath].files[name] = [present |-> TRUE, data |-> <<>>],
              ![rpath].mtime = IF d[rpath].files[name].present THEN @ ELSE t]

\* f.write(data) and the close that ends the with block.
fs_write(d, rpath, name, data) ==
    [d EXCEPT ![rpath].files[name].data = data]

\* os.stat(rpath).st_mtime
fs_mtime(d, rpath) == d[rpath].mtime

\* f.read() of an open file
fs_read(d, rpath, name) == d[rpath].files[name].data

\* ---------------------------------------------------- what a call gives

\* A call returns None, returns a response, or raises.
ReturnNone == [kind |-> "none", exc |-> "", response |-> NoResponse]
Return(response) == [kind |-> "response", exc |-> "", response |-> response]
Raise(exc) == [kind |-> "raise", exc |-> exc, response |-> NoResponse]

NoMeta == [url |-> <<"", "">>, method |-> "", status |-> 0, timestamp |-> 0]
MetaNone == [kind |-> "none", exc |-> "", meta |-> NoMeta]

\* -------------------------------------------- FilesystemCacheStorage

\* older_than with the comparison turned round.
older_than_reversed(expiration_secs, age) == expiration_secs > age

\* The second comparison of line 119: the record is older than the window.
older_than(expiration_secs, age) == expiration_secs < age

\* Line 119 without its first comparison.
expired_any_sign(expiration_secs, t, mtime) == older_than(expiration_secs, t - mtime)

\* line 119: 0 <= self.expiration_secs < time() - mtime
expired(expiration_secs, t, mtime) ==
    0 <= expiration_secs /\ older_than(expiration_secs, t - mtime)

\* The file whose presence decides that a record is cached (line 115).
metapath_name == "pickled_meta"

\* FilesystemCacheStorage._read_meta
read_meta(d, spider, request, t, expiration_secs) ==
    LET rpath == get_request_path(spider, request)
    IN  IF ~fs_exists_file(d, rpath, metapath_name) THEN MetaNone
        ELSE IF expired(expiration_secs, t, fs_mtime(d, rpath)) THEN MetaNone
        ELSE LET data == fs_read(d, rpath, metapath_name)
             IN  IF pickle_ok(data)
                 THEN [kind |-> "meta", exc |-> "", meta |-> pickle_load(data)]
                 ELSE [kind |-> "raise", exc |-> "EOFError", meta |-> NoMeta]

\* Lines 78-83: the response built from the metadata and the two payloads.
build_response(metadata, rawheaders, body) ==
    [url |-> metadata.url, status |-> metadata.status,
     headers |-> headers_raw_to_dict(rawheaders), body |-> body, flags |-> <<>>]

\* FilesystemCacheStorage.retrieve_response
retrieve_response(d, spider, request, t, expiration_secs) ==
    LET m == read_meta(d, spider, request, t, expiration_secs)
        rpath == get_request_path(spider, request)
    IN  IF m.kind = "none" THEN ReturnNone
        ELSE IF m.kind = "raise" THEN Raise(m.exc)
        ELSE IF ~fs_exists_file(d, rpath, "response_body") THEN Raise("IOError")
        ELSE IF ~fs_exists_file(d, rpath, "response_headers") THEN Raise("IOError")
        ELSE Return(build_response(m.meta,
                                   fs_read(d, rpath, "response_headers"),
                                   fs_read(d, rpath, "response_body")))

\* Lines 90-95: the metadata of a store.
make_metadata(request, response, t) ==
    [url |-> request.url, method |-> request.method,
     status |-> response.status, timestamp |-> t]

\* The files store_response writes, in the order of lines 96-107.
StoreOrder == <<"meta", "pickled_meta", "response_headers", "response_body",
                "request_headers", "request_body">>

\* What store_response writes to each file.
file_data(name, metadata, request, response) ==
    CASE name = "meta" -> repr(metadata)
      [] name = "pickled_meta" -> pickle_dump(metadata)
      [] name = "response_headers" -> headers_dict_to_raw(response.headers)
      [] name = "response_body" -> response.body
      [] name = "request_headers" -> headers_dict_to_raw(request.headers)
      [] name = "request_body" -> request.body

\* One with block of lines 96-107: open, write, close.
store_file(d, rpath, name, data, t) ==
    fs_write(fs_open_wb(d, rpath, name, t), rpath, name, data)

\* The with blocks from the i-th on.
RECURSIVE store_files(_, _, _, _, _, _, _)
store_files(d, rpath, i, metadata, request, response, t) ==
    IF i > Len(StoreOrder) THEN d
    ELSE store_files(store_file(d, rpath, StoreOrder[i],
                                file_data(StoreOrder[i], metadata, request, response), t),
                     rpath, i + 1, metadata, request, response, t)

\* FilesystemCacheStorage.store_response, run without interruption.
store_response(d, spider, request, response, t) ==
    LET rpath == get_request_path(spider, request)
        d0 == IF ~fs_exists(d, rpath) THEN fs_makedirs(d, rpath, t) ELSE d
    IN  store_files(d0, rpath, 1, make_metadata(request, response, t),
                    request, response, t)

\* ------------------------------------------------ HttpCacheMiddleware

\* cached_flag misspelt.
cached_flag_typo == "cache"

\* The flag process_request puts on a response served from the cache.
cached_flag == "cached"

\* process_request raising on every miss, whatever ignore_missing says.
process_request_strict(d, request, spider, t, conf) ==
    IF ~is_cacheable(request) THEN [out |-> ReturnNone, storage |-> "none"]
    ELSE LET r == retrieve_response(d, spider, request, t, conf.expiration_secs)
         IN  [storage |-> "retrieve",
              out |-> IF r.kind = "response"
                      THEN Return([r.response EXCEPT !.flags = Append(@, cached_flag)])
                      ELSE IF r.kind = "raise" THEN r
                      ELSE Raise("IgnoreRequest")]

\* Lines 38-42 of process_request: what it does with what the storage gave.
after_retrieve(r, conf) ==
    IF r.kind = "response"
    THEN Return([r.response EXCEPT !.flags = Append(@, cached_flag)])
    ELSE IF r.kind = "raise" THEN r
    ELSE IF conf.ignore_missing THEN Raise("IgnoreRequest")
    ELSE ReturnNone

\* HttpCacheMiddleware.process_request: what it returns or raises, and the
\* storage method it called.
process_request(d, request, spider, t, conf) ==
    IF ~is_cacheable(request) THEN [out |-> ReturnNone, storage |-> "none"]
    ELSE [storage |-> "retrieve",
          out |-> after_retrieve(
                      retrieve_response(d, spider, request, t, conf.expiration_secs),
                      conf)]

\* process_response storing successful responses only.
process_response_ok_only(d, request, response, spider, t) ==
    IF is_cacheable(request) /\ response.status < 400
    THEN [out |-> Return(response), storage |-> "store",
          disk |-> store_response(d, spider, request, response, t)]
    ELSE [out |-> Return(response), storage |-> "none", disk |-> d]

\* HttpCacheMiddleware.process_response: what it returns, the storage method
\* it called and the disk it leaves.
process_response(d, request, response, spider, t) ==
    IF is_cacheable(request)
    THEN [out |-> Return(response), storage |-> "store",
          disk |-> store_response(d, spider, request, response, t)]
    ELSE [out |-> Return(response), storage |-> "none", disk |-> d]

\* ------------------------------------------------------------ the state

VARIABLES
    disk,      \* the cache directory: record path -> directory
    now,       \* time()
    settings,  \* HTTPCACHE_EXPIRATION_SECS and HTTPCACHE_IGNORE_MISSING
    last,      \* the call that ended at this instant: its arguments and result
    stored,    \* per record path, the latest store_response that completed
    proc       \* the calls in progress, where they run step by step

vars == <<disk, now, settings, last, stored, proc>>

NoCall == [op |-> "none", spider |-> "", request |-> ReqF, response |-> NoResponse,
           out |-> ReturnNone, storage |-> "none", changed |-> FALSE]

\* done: a store completed; interrupted: a store was cut short since; damaged:
\* the file removed or truncated since.
NeverStored == [done |-> FALSE, time |-> 0, request |-> ReqF, response |-> NoResponse,
                interrupted |-> FALSE, damaged |-> ""]

\* The record of a store_response that has just completed.
StoredNow(request, response, t) ==
    [done |-> TRUE, time |-> t, request |-> request, response |-> response,
     interrupted |-> FALSE, damaged |-> ""]

Settings == {[expiration_secs |-> e, ignore_missing |-> b] :
                e \in -1..MaxExpiration, b \in BOOLEAN}

Init ==
    /\ disk = [p \in Paths |-> NoDir]
    /\ now = 0
    /\ settings \in Settings
    /\ last = NoCall
    /\ stored = [p \in Paths |-> NeverStored]
    /\ proc = <<>>

\* time() moves on; the call that ended is in the past.
Tick ==
    /\ now < MaxTime
    /\ now' = now + 1
    /\ last' = NoCall
    /\ UNCHANGED <<disk, settings, stored, proc>>

\* HttpCacheMiddleware.spider_opened: storage.open_spider does nothing.
SpiderOpened ==
    \E spider \in Spiders :
        /\ last' = [NoCall EXCEPT !.op = "spider_opened", !.spider = spider]
        /\ UNCHANGED <<disk, now, settings, stored, proc>>

\* HttpCacheMiddleware.spider_closed: storage.close_spider does nothing.
SpiderClosed ==
    \E spider \in Spiders :
        /\ last' = [NoCall EXCEPT !.op = "spider_closed", !.spider = spider]
        /\ UNCHANGED <<disk, now, settings, stored, proc>>

\* process_request that deletes the record it found unusable.
DoProcessRequestPurge(spider, request) ==
    LET r == process_request(disk, request, spider, now, settings)
        rpath == get_request_path(spider, request)
    IN  /\ last' = [op |-> "process_request", spider |-> spider,
                    request |-> request, response |-> NoResponse,
                    out |-> r.out, storage |-> r.storage, changed |-> FALSE]
        /\ disk' = IF r.storage = "retrieve" /\ r.out.kind # "response"
                   THEN [disk EXCEPT ![rpath] = NoDir]
                   ELSE disk
        /\ UNCHANGED <<now, settings, stored, proc>>

\* One call of process_request(request, spider).
DoProcessRequest(spider, request) ==
    LET r == process_request(disk, request, spider, now, settings)
    IN  /\ last' = [op |-> "process_request", spider |-> spider,
                    request |-> request, response |-> NoResponse,
                    out |-> r.out, storage |-> r.storage, changed |-> FALSE]
        /\ UNCHANGED <<disk, now, settings, stored, proc>>

\* The downloader calls process_request.
ProcessRequest ==
    \E spider \in Spiders, request \in Requests :
        DoProcessRequest(spider, request)

\* One call of process_response(request, response, spider).
DoProcessResponse(spider, request, response) ==
    LET r == process_response(disk, request, response, spider, now)
        rpath == get_request_path(spider, request)
    IN  /\ disk' = r.disk
        /\ last' = [op |-> "process_response", spider |-> spider,
                    request |-> request, response |-> response,
                    out |-> r.out, storage |-> r.storage,
                    changed |-> r.disk # disk]
        /\ stored' = IF r.storage = "store"
                     THEN [stored EXCEPT ![rpath] =
                              StoredNow(request, response, now)]
                     ELSE stored
        /\ UNCHANGED <<now, settings, proc>>

\* The downloader calls process_response with the response to a request.
ProcessResponse ==
    \E spider \in Spiders, request \in Requests, response \in Responses :
        DoProcessResponse(spider, request, response)

Next == Tick \/ SpiderOpened \/ SpiderClosed \/ ProcessRequest \/ ProcessResponse

Spec == Init /\ [][Next]_vars

\* ------------------------------------------- the calls, step by step
\* Several processes may share one cache directory, and a process may die in
\* the middle of a call.  Here each call runs one file-system operation at a
\* time, in the order of the code.

Idle == [pc |-> "idle", spider |-> "", request |-> ReqF, response |-> NoResponse,
         i |-> 0, metadata |-> NoMeta, body |-> NoBody]

Workers == DOMAIN proc

\* The calls followed step by step are those for one cacheable request, and
\* for the request that is not cacheable.
StepRequests == {ReqA, ReqF}

\* They run at one instant, with the largest expiration window.
StepSettings == {c \in Settings : c.expiration_secs = MaxExpiration}

\* The call of worker w ends: it returns or raises.
Finish(w, op, out, storage, changed) ==
    /\ last' = [op |-> op, spider |-> proc[w].spider, request |-> proc[w].request,
                response |-> proc[w].response, out |-> out,
                storage |-> storage, changed |-> changed]
    /\ proc' = [proc EXCEPT ![w] = Idle]

\* retrieve_response of worker w ends with r: lines 38-42 of process_request.
FinishRequest(w, r) ==
    /\ Finish(w, "process_request", after_retrieve(r, settings), "retrieve", FALSE)
    /\ UNCHANGED <<disk, now, settings, stored>>

\* process_request, lines 35-37.
CallProcessRequest ==
    \E w \in Workers, spider \in Spiders, request \in StepRequests :
        /\ proc[w].pc = "idle"
        /\ IF is_cacheable(request)
           THEN /\ proc' = [proc EXCEPT ![w] = [Idle EXCEPT !.pc = "read_meta_exists",
                                                   !.spider = spider,
                                                   !.request = request]]
                /\ last' = NoCall
           ELSE /\ last' = [NoCall EXCEPT !.op = "process_request",
                                          !.spider = spider, !.request = request]
                /\ UNCHANGED proc
        /\ UNCHANGED <<disk, now, settings, stored>>

\* _read_meta, line 116.
ReadMetaExists ==
    \E w \in Workers :
        /\ proc[w].pc = "read_meta_exists"
        /\ LET rpath == get_request_path(proc[w].spider, proc[w].request)
           IN  IF fs_exists_file(disk, rpath, metapath_name)
               THEN /\ proc' = [proc EXCEPT ![w].pc = "read_meta_stat"]
                    /\ last' = NoCall
                    /\ UNCHANGED <<disk, now, settings, stored>>
               ELSE FinishRequest(w, ReturnNone)

\* _read_meta, lines 118-120.
ReadMetaStat ==
    \E w \in Workers :
        /\ proc[w].pc = "read_meta_stat"
        /\ LET rpath == get_request_path(proc[w].spider, proc[w].request)
           IN  IF expired(settings.expiration_secs, now, fs_mtime(disk, rpath))
               THEN FinishRequest(w, ReturnNone)
               ELSE /\ proc' = [proc EXCEPT ![w].pc = "read_meta_load"]
                    /\ last' = NoCall
                    /\ UNCHANGED <<disk, now, settings, stored>>

\* _read_meta, lines 121-122.
ReadMetaLoad ==
    \E w \in Workers :
        /\ proc[w].pc = "read_meta_load"
        /\ LET rpath == get_request_path(proc[w].spider, proc[w].request)
               data == fs_read(disk, rpath, metapath_name)
           IN  IF ~fs_exists_file(disk, rpath, metapath_name)
               THEN FinishRequest(w, Raise("IOError"))
               ELSE IF ~pickle_ok(data)
               THEN FinishRequest(w, Raise("EOFError"))
               ELSE /\ proc' = [proc EXCEPT ![w].pc = "read_body",
                                            ![w].metadata = pickle_load(data)]
                    /\ last' = NoCall
                    /\ UNCHANGED <<disk, now, settings, stored>>

\* retrieve_response, lines 74-75.
ReadBody ==
    \E w \in Workers :
        /\ proc[w].pc = "read_body"
        /\ LET rpath == get_request_path(proc[w].spider, proc[w].request)
           IN  IF ~fs_exists_file(disk, rpath, "response_body")
               THEN FinishRequest(w, Raise("IOError"))
               ELSE /\ proc' = [proc EXCEPT ![w].pc = "read_headers",
                                            ![w].body = fs_read(disk, rpath, "response_body")]
                    /\ last' = NoCall
                    /\ UNCHANGED <<disk, now, settings, stored>>

\* retrieve_response, lines 76-83, and the return of process_request.
ReadHeaders ==
    \E w \in Workers :
        /\ proc[w].pc = "read_headers"
        /\ LET rpath == get_request_path(proc[w].spider, proc[w].request)
           IN  IF ~fs_exists_file(disk, rpath, "response_headers")
               THEN FinishRequest(w, Raise("IOError"))
               ELSE FinishRequest(w,
                        Return(build_response(proc[w].metadata,
                                              fs_read(disk, rpath, "response_headers"),
                                              proc[w].body)))

\* process_response, lines 45-47.
CallProcessResponse ==
    \E w \in Workers, spider \in Spiders, request \in StepRequests, response \in Responses :
        /\ proc[w].pc = "idle"
        /\ IF is_cacheable(request)
           THEN /\ proc' = [proc EXCEPT ![w] = [Idle EXCEPT !.pc = "store_exists",
                                                   !.spider = spider,
                                                   !.request = request,
                                                   !.response = response]]
                /\ last' = NoCall
           ELSE /\ last' = [NoCall EXCEPT !.op = "process_response",
                                          !.spider = spider, !.request = request,
                                          !.response = response,
                                          !.out = Return(response)]
                /\ UNCHANGED proc
        /\ UNCHANGED <<disk, now, settings, stored>>

\* store_response, line 88.
StoreExists ==
    \E w \in Workers :
        /\ proc[w].pc = "store_exists"
        /\ LET rpath == get_request_path(proc[w].spider, proc[w].request)
           IN  proc' = [proc EXCEPT ![w].pc = IF fs_exists(disk, rpath)
                                              THEN "store_metadata"
                                              ELSE "store_makedirs"]
        /\ last' = NoCall
        /\ UNCHANGED <<disk, now, settings, stored>>

\* store_response, line 89: os.makedirs raises when another process has made
\* the directory since line 88.
StoreMakedirs ==
    \E w \in Workers :
        /\ proc[w].pc = "store_makedirs"
        /\ LET rpath == get_request_path(proc[w].spider, proc[w].request)
           IN  IF fs_exists(disk, rpath)
               THEN /\ Finish(w, "process_response", Raise("OSError"), "store", FALSE)
                    /\ UNCHANGED <<disk, now, settings, stored>>
               ELSE /\ disk' = fs_makedirs(disk, rpath, now)
                    /\ proc' = [proc EXCEPT ![w].pc = "store_metadata"]
                    /\ last' = NoCall
                    /\ UNCHANGED <<now, settings, stored>>

\* store_response, lines 90-95.
StoreMetadata ==
    \E w \in Workers :
        /\ proc[w].pc = "store_metadata"
        /\ proc' = [proc EXCEPT ![w].pc = "store_open", ![w].i = 1,
                                ![w].metadata = make_metadata(proc[w].request,
                                                              proc[w].response, now)]
        /\ last' = NoCall
        /\ UNCHANGED <<disk, now, settings, stored>>

\* store_response, the open(..., 'wb') of the i-th with block.
StoreOpen ==
    \E w \in Workers :
        /\ proc[w].pc = "store_open"
        /\ disk' = fs_open_wb(disk, get_request_path(proc[w].spider, proc[w].request),
                              StoreOrder[proc[w].i], now)
        /\ proc' = [proc EXCEPT ![w].pc = "store_write"]
        /\ last' = NoCall
        /\ UNCHANGED <<now, settings, stored>>

\* store_response, the write and the close of the i-th with block; after the
\* last one store_response returns and process_response returns the response.
StoreWrite ==
    \E w \in Workers :
        /\ proc[w].pc = "store_write"
        /\ LET rpath == get_request_path(proc[w].spider, proc[w].request)
               name == StoreOrder[proc[w].i]
           IN  /\ disk' = fs_write(disk, rpath, name,
                                   file_data(name, proc[w].metadata,
                                             proc[w].request, proc[w].response))
               /\ IF proc[w].i < Len(StoreOrder)
                  THEN /\ proc' = [proc EXCEPT ![w].pc = "store_open", ![w].i = @ + 1]
                       /\ last' = NoCall
                       /\ UNCHANGED stored
                  ELSE /\ Finish(w, "process_response", Return(proc[w].response),
                                 "store", TRUE)
                       /\ stored' = [stored EXCEPT ![rpath] =
                                        StoredNow(proc[w].request, proc[w].response, now)]
        /\ UNCHANGED <<now, settings>>

\* The process of worker w dies in the middle of its call; a store_response
\* that has opened its first file is left cut short.
Crash ==
    \E w \in Workers :
        /\ proc[w].pc # "idle"
        /\ proc' = [proc EXCEPT ![w] = Idle]
        /\ stored' = IF proc[w].pc \in {"store_open", "store_write"}
                        /\ ~(proc[w].pc = "store_open" /\ proc[w].i = 1)
                     THEN [stored EXCEPT
                              ![get_request_path(proc[w].spider, proc[w].request)]
                                  .interrupted = TRUE]
                     ELSE stored
        /\ last' = NoCall
        /\ UNCHANGED <<disk, now, settings>>

StepNext ==
    \/ CallProcessRequest \/ ReadMetaExists \/ ReadMetaStat \/ ReadMetaLoad
    \/ ReadBody \/ ReadHeaders
    \/ CallProcessResponse \/ StoreExists \/ StoreMakedirs \/ StoreMetadata
    \/ StoreOpen \/ StoreWrite

\* One process, which may die and start again.
InitCrash ==
    /\ disk = [p \in Paths |-> NoDir]
    /\ now = 0
    /\ settings \in StepSettings
    /\ last = NoCall
    /\ stored = [p \in Paths |-> NeverStored]
    /\ proc = [w \in {"w1"} |-> Idle]

NextCrash == StepNext \/ Crash

SpecCrash == InitCrash /\ [][NextCrash]_vars

\* Two processes on one cache directory.
InitConc ==
    /\ disk = [p \in Paths |-> NoDir]
    /\ now = 0
    /\ settings \in StepSettings
    /\ last = NoCall
    /\ stored = [p \in Paths |-> NeverStored]
    /\ proc = [w \in {"w1", "w2"} |-> Idle]

NextConc == StepNext

SpecConc == InitConc /\ [][NextConc]_vars

\* ------------------------------------------------- damage to a record

\* os.remove(join(rpath, name)) by something outside the cache: the entry
\* goes, which changes the directory's modification time.
fs_remove(d, rpath, name, t) ==
    [d EXCEPT ![rpath].files[name] = NoFile, ![rpath].mtime = t]

\* The file cut to its first n items.
fs_truncate(d, rpath, name, n) ==
    [d EXCEPT ![rpath].files[name].data = SubSeq(@, 1, n)]

\* One file of a whole, undamaged record is removed or cut short.
Corrupt ==
    \E rpath \in Paths, name \in FileNames :
        /\ stored[rpath].done
        /\ stored[rpath].damaged = ""
        /\ \/ disk' = fs_remove(disk, rpath, name, now)
           \/ \E n \in 0..(Len(fs_read(disk, rpath, name)) - 1) :
                 disk' = fs_truncate(disk, rpath, name, n)
        /\ stored' = [stored EXCEPT ![rpath].damaged = name]
        /\ last' = NoCall
        /\ UNCHANGED <<now, settings, proc>>

\* The handlers and the damage, at one instant.
InitCorrupt ==
    /\ disk = [p \in Paths |-> NoDir]
    /\ now = 0
    /\ settings \in Settings
    /\ last = NoCall
    /\ stored = [p \in Paths |-> NeverStored]
    /\ proc = <<>>

NextCorrupt == ProcessRequest \/ ProcessResponse \/ Corrupt

SpecCorrupt == InitCorrupt /\ [][NextCorrupt]_vars

\* ------------------------------------------------------------ the claims

Cacheable == {r \in Requests : is_cacheable(r)}

\* url, status, headers and body agree.
SameContent(a, b) ==
    /\ a.url = b.url
    /\ a.status = b.status
    /\ a.headers = b.headers
    /\ a.body = b.body

\* Time t lies within the expiration window that ends now.
WithinWindow(t) ==
    settings.expiration_secs < 0 \/ now - t <= settings.expiration_secs

\* What retrieve_response gives when called in this state.
RetrieveNow(spider, request) ==
    retrieve_response(disk, spider, request, now, settings.expiration_secs)

\* All six files of the record are on disk.
AllFilesPresent(rpath) ==
    disk[rpath].exists /\ \A f \in FileNames : disk[rpath].files[f].present

\* C1: after store_response(spider, R, S) completed, retrieve_response(spider, R)
\* within the expiration window is a hit whose url, status, headers and body
\* are those of S.
C1_RoundTrip ==
    \A spider \in Spiders, request \in Cacheable :
        LET st == stored[get_request_path(spider, request)]
            out == RetrieveNow(spider, request)
        IN  (st.done /\ WithinWindow(st.time))
                => (out.kind = "response" /\ SameContent(out.response, st.response))

\* C2: with expiration_secs >= 0, retrieve_response is a hit whenever the time
\* since the latest completed store of the key is at most expiration_secs.
C2_TtlFromLatestStore ==
    \A spider \in Spiders, request \in Cacheable :
        LET st == stored[get_request_path(spider, request)]
        IN  (settings.expiration_secs >= 0 /\ st.done
                /\ now - st.time <= settings.expiration_secs)
                => RetrieveNow(spider, request).kind = "response"

\* C3: with expiration_secs >= 0, a stored record whose write time (the time of
\* its latest store, or the modification time the code reads) lies more than
\* expiration_secs back is a miss (None), and its files are still on disk.
C3_ExpiredIsMiss ==
    \A spider \in Spiders, request \in Cacheable :
        LET rpath == get_request_path(spider, request)
            st == stored[rpath]
        IN  (/\ settings.expiration_secs >= 0
             /\ st.done
             /\ \/ now - st.time > settings.expiration_secs
                \/ now - fs_mtime(disk, rpath) > settings.expiration_secs)
                => (RetrieveNow(spider, request) = ReturnNone /\ AllFilesPresent(rpath))

\* C3's case: process_request has just looked up an expired record whose
\* files are all on disk, and got nothing.
C3_Witness ==
    /\ last.op = "process_request"
    /\ is_cacheable(last.request)
    /\ settings.expiration_secs >= 0
    /\ ~settings.ignore_missing
    /\ LET rpath == get_request_path(last.spider, last.request)
       IN  /\ stored[rpath].done
           /\ now - stored[rpath].time > settings.expiration_secs
           /\ AllFilesPresent(rpath)
    /\ last.out = ReturnNone

\* The storage engine reports a miss for the request of the last call: no
\* record, or an expired one.
LastIsMiss ==
    LET rpath == get_request_path(last.spider, last.request)
    IN  /\ RetrieveNow(last.spider, last.request) = ReturnNone
        /\ \/ ~fs_exists_file(disk, rpath, "pickled_meta")
           \/ /\ settings.expiration_secs >= 0
              /\ now - fs_mtime(disk, rpath) > settings.expiration_secs

\* C7: process_request raises IgnoreRequest exactly when ignore_missing is
\* set, the request is cacheable and the storage reports a miss; without
\* ignore_missing a miss returns None; a request that is not cacheable gets
\* None in both modes; process_response never raises IgnoreRequest.
C7_IgnoreRequestOnlyStrictMiss ==
    /\ last.op = "process_request" =>
          /\ last.out = Raise("IgnoreRequest")
                <=> (settings.ignore_missing /\ is_cacheable(last.request) /\ LastIsMiss)
          /\ (~settings.ignore_missing /\ is_cacheable(last.request) /\ LastIsMiss)
                => last.out = ReturnNone
          /\ ~is_cacheable(last.request) => last.out = ReturnNone
    /\ last.op = "process_response" => last.out.kind # "raise"

\* C7's case: in strict mode process_request missed and raised.
C7_Witness ==
    /\ last.op = "process_request"
    /\ settings.ignore_missing
    /\ is_cacheable(last.request)
    /\ LastIsMiss
    /\ last.out = Raise("IgnoreRequest")

\* C8: a request whose scheme is neither http nor https is not cacheable, no
\* call for it reaches retrieve_response or store_response, and none changes
\* the cache: no record of it is ever on disk.
C8_OtherSchemesBypass ==
    /\ \A request \in Requests :
          urlparse_scheme(request) \notin {"http", "https"} => ~is_cacheable(request)
    /\ (/\ last.op \in {"process_request", "process_response"}
        /\ urlparse_scheme(last.request) \notin {"http", "https"})
          => (last.storage = "none" /\ ~last.changed)
    /\ \A spider \in Spiders, request \in Requests :
          urlparse_scheme(request) \notin {"http", "https"}
              => /\ ~fs_exists(disk, get_request_path(spider, request))
                 /\ ~stored[get_request_path(spider, request)].done

\* C8's case: process_response was given the response to an ftp request,
\* while the cache holds a record of another request.
C8_Witness ==
    /\ last.op = "process_response"
    /\ urlparse_scheme(last.request) = "ftp"
    /\ last.storage = "none"
    /\ \E spider \in Spiders, request \in Cacheable :
          stored[get_request_path(spider, request)].done

\* C9: process_request returns a response exactly when the request is
\* cacheable and the storage has a hit for it, that response is the stored one
\* with the 'cached' flag added; process_response returns the flags it got.
C9_CachedFlag ==
    /\ last.op = "process_request" =>
          /\ last.out.kind = "response"
                <=> (/\ is_cacheable(last.request)
                     /\ RetrieveNow(last.spider, last.request).kind = "response")
          /\ last.out.kind = "response" =>
                /\ last.out.response.flags # <<>>
                /\ last.out.response.flags[Len(last.out.response.flags)] = "cached"
                /\ SameContent(last.out.response,
                               RetrieveNow(last.spider, last.request).response)
    /\ last.op = "process_response" =>
          /\ last.out.kind = "response"
          /\ last.out.response.flags = last.response.flags

\* C9's case: process_request served a response from the cache.
C9_Witness ==
    /\ last.op = "process_request"
    /\ last.out.kind = "response"
    /\ last.out.response.flags = <<"cached">>

\* The record at rpath holds what a store of (request, response) writes.
RecordHolds(rpath, request, response) ==
    /\ AllFilesPresent(rpath)
    /\ pickle_ok(fs_read(disk, rpath, "pickled_meta"))
    /\ pickle_load(fs_read(disk, rpath, "pickled_meta")).status = response.status
    /\ pickle_load(fs_read(disk, rpath, "pickled_meta")).url = request.url
    /\ fs_read(disk, rpath, "response_headers") = headers_dict_to_raw(response.headers)
    /\ fs_read(disk, rpath, "response_body") = response.body
    /\ fs_read(disk, rpath, "request_headers") = headers_dict_to_raw(request.headers)
    /\ fs_read(disk, rpath, "request_body") = request.body

AllIdle == \A w \in Workers : proc[w].pc = "idle"

\* C4: after a store_response was interrupted between its sub-writes, of a
\* new record or over an existing one, retrieve_response reports a miss: it
\* returns None, so that process_request returns None or raises IgnoreRequest.
C4_InterruptedStoreIsMiss ==
    /\ \A spider \in Spiders, request \in Cacheable :
          (AllIdle /\ stored[get_request_path(spider, request)].interrupted)
              => RetrieveNow(spider, request) = ReturnNone
    /\ (/\ last.op = "process_request"
        /\ is_cacheable(last.request)
        /\ stored[get_request_path(last.spider, last.request)].interrupted)
          => last.out \in {ReturnNone, Raise("IgnoreRequest")}

\* The response a hit gives when store_response(request, response) wrote all
\* that was read.
HitOf(request, response) ==
    [url |-> request.url, status |-> response.status, headers |-> response.headers,
     body |-> response.body, flags |-> <<"cached">>]

\* C5: with store_response and retrieve_response calls for one key running
\* concurrently, every hit carries the url, status, headers and body written
\* by one single store, and once all calls have ended the record on disk is
\* the whole record of one store.
C5_SelfConsistent ==
    /\ (last.op = "process_request" /\ last.out.kind = "response")
          => \E response \in Responses : last.out.response = HitOf(last.request, response)
    /\ \A spider \in Spiders, request \in Cacheable :
          (AllIdle /\ stored[get_request_path(spider, request)].done)
              => \E response \in Responses :
                    RecordHolds(get_request_path(spider, request), request, response)

\* C6: with one file of a valid, unexpired record removed or truncated,
\* retrieve_response reports a miss (None) and raises nothing.
C6_DamagedRecordIsMiss ==
    \A spider \in Spiders, request \in Cacheable :
        LET rpath == get_request_path(spider, request)
        IN  (/\ stored[rpath].done
             /\ WithinWindow(stored[rpath].time)
             /\ stored[rpath].damaged # "")
                => RetrieveNow(spider, request) = ReturnNone

\* ------------------------------------------- several records, one directory
\* Two spiders share the cache directory; the first spider's two cacheable
\* requests have keys with the same two-character shard prefix, and the
\* second spider requests one of them as well.  The first record is stored
\* with either response, the other two with one.

IsoCalls == {<<"s1", ReqA, Resp200>>, <<"s1", ReqA, Resp404>>,
             <<"s1", ReqB, Resp404>>, <<"s2", ReqA, Resp404>>}

IsoSettings == {c \in Settings : ~c.ignore_missing /\ c.expiration_secs = MaxExpiration}

InitIso ==
    /\ disk = [p \in Paths |-> NoDir]
    /\ now = 0
    /\ settings \in IsoSettings
    /\ last = NoCall
    /\ stored = [p \in Paths |-> NeverStored]
    /\ proc = <<>>

IsoProcessResponse ==
    \E c \in IsoCalls :
        DoProcessResponse(c[1], c[2], c[3])

NextIso == Tick \/ IsoProcessResponse

SpecIso == InitIso /\ [][NextIso]_vars

\* The pair (namespace, key) of a call.
RecordId(spider, request) == <<spider, request_fingerprint(request)>>

\* retrieve_response(spider, request) on the directory d at the time t.
RetrieveAt(d, spider, request, t) ==
    retrieve_response(d, spider, request, t, settings.expiration_secs)

\* C11: two calls have the same record location exactly when they have the
\* same namespace and key, and a store_response for (N, K) leaves
\* retrieve_response of every other (N', K'), keys with the same shard prefix
\* included, as it was: the same hit or miss with the same content, now and
\* at every later time.
C11_Isolation ==
    [][/\ \A s1 \in Namespaces, s2 \in Namespaces, r1 \in Requests, r2 \in Requests :
              (get_request_path(s1, r1) = get_request_path(s2, r2))
                  <=> (RecordId(s1, r1) = RecordId(s2, r2))
       /\ (last'.op = "process_response" /\ last'.storage = "store")
              => \A s \in Namespaces, r \in Cacheable :
                    (RecordId(s, r) # RecordId(last'.spider, last'.request))
                        => \A t \in now..MaxTime :
                              RetrieveAt(disk', s, r, t) = RetrieveAt(disk, s, r, t)
      ]_vars

\* A store for (s1, ReqA) has just changed the disk while (s1, ReqB), whose
\* key has the same shard prefix, and (s2, ReqA) hold another response.
C11_Witness ==
    /\ last.op = "process_response" /\ last.storage = "store" /\ last.changed
    /\ last.spider = "s1" /\ last.request = ReqA
    /\ SubSeq(request_fingerprint(ReqA), 1, 2) = SubSeq(request_fingerprint(ReqB), 1, 2)
    /\ \A c \in {<<"s1", ReqB>>, <<"s2", ReqA>>} :
          /\ stored[get_request_path(c[1], c[2])].done
          /\ stored[get_request_path(c[1], c[2])].response # last.response
          /\ RetrieveNow(c[1], c[2]).kind = "response"


\* C12: a process_request call, whether it ends in a hit, a miss, an expired
\* record or IgnoreRequest, leaves every directory of the cache (its files,
\* their contents and its modification time) as it was; the disk changes only
\* in a process_response call for a cacheable request, which calls
\* store_response.
C12_ReadsNeverMutate ==
    [][/\ (last'.op = "process_request") => (disk' = disk)
       /\ (disk' # disk)
              => /\ last'.op = "process_response"
                 /\ last'.storage = "store"
                 /\ is_cacheable(last'.request)
      ]_vars

\* A lookup has just ended in a hit on a record stored at an earlier time,
\* while another record of the cache has expired.
C12_Witness ==
    /\ last.op = "process_request" /\ last.out.kind = "response"
    /\ stored[get_request_path(last.spider, last.request)].done
    /\ stored[get_request_path(last.spider, last.request)].time < now
    /\ AllFilesPresent(get_request_path(last.spider, last.request))
    /\ \E request \in Cacheable :
          /\ request # last.request
          /\ stored[get_request_path(last.spider, request)].done
          /\ RetrieveNow(last.spider, request) = ReturnNone


\* ------------------------------------------- store, look up, store again
\* One caller of the storage, for one request: store_response, then
\* retrieve_response, then store_response again and retrieve_response again,
\* with time() free to move on between the calls.  proc holds the caller's
\* position and what each call was given and returned.

CallerSettings == {c \in Settings : ~c.ignore_missing}

CallerStart(request) ==
    [pc |-> "store1", request |-> request,
     first |-> NoResponse, first_time |-> 0,
     seen1 |-> ReturnNone, seen1_time |-> 0,
     second |-> NoResponse, second_time |-> 0,
     seen2 |-> ReturnNone, seen2_time |-> 0]

InitCaller ==
    /\ disk = [p \in Paths |-> NoDir]
    /\ now = 0
    /\ settings \in CallerSettings
    /\ last = NoCall
    /\ stored = [p \in Paths |-> NeverStored]
    /\ proc \in {[w \in {"caller"} |-> CallerStart(request)] : request \in Cacheable}

\* storage.store_response(spider, request, response)
CallerStore ==
    \E spider \in Spiders, response \in Responses :
        LET c == proc["caller"]
            rpath == get_request_path(spider, c.request)
        IN  /\ c.pc \in {"store1", "store2"}
            /\ disk' = store_response(disk, spider, c.request, response, now)
            /\ stored' = [stored EXCEPT ![rpath] = StoredNow(c.request, response, now)]
            /\ proc' = [proc EXCEPT !["caller"] =
                            IF c.pc = "store1"
                            THEN [c EXCEPT !.pc = "retrieve1", !.first = response,
                                           !.first_time = now]
                            ELSE [c EXCEPT !.pc = "retrieve2", !.second = response,
                                           !.second_time = now]]
            /\ last' = NoCall
            /\ UNCHANGED <<now, settings>>

\* storage.retrieve_response(spider, request)
CallerRetrieve ==
    \E spider \in Spiders :
        LET c == proc["caller"]
            out == retrieve_response(disk, spider, c.request, now,
                                     settings.expiration_secs)
        IN  /\ c.pc \in {"retrieve1", "retrieve2"}
            /\ proc' = [proc EXCEPT !["caller"] =
                            IF c.pc = "retrieve1"
                            THEN [c EXCEPT !.pc = "store2", !.seen1 = out,
                                           !.seen1_time = now]
                            ELSE [c EXCEPT !.pc = "done", !.seen2 = out,
                                           !.seen2_time = now]]
            /\ last' = NoCall
            /\ UNCHANGED <<disk, now, settings, stored>>

NextCaller == Tick \/ CallerStore \/ CallerRetrieve

SpecCaller == InitCaller /\ [][NextCaller]_vars

\* A retrieve at time t lies within the expiration window of a store at time s.
InWindow(s, t) ==
    settings.expiration_secs < 0 \/ t - s <= settings.expiration_secs

\* C13: when the same (request, response) pair is stored twice in sequence,
\* the retrieve_response after the first store and the one after the second
\* store, each within the expiration window of the store before it, are both
\* hits, with the same url, status, headers and body.
C13_StoreIdempotent ==
    LET c == proc["caller"]
    IN  (/\ c.pc = "done"
         /\ c.first = c.second
         /\ InWindow(c.first_time, c.seen1_time)
         /\ InWindow(c.second_time, c.seen2_time))
            => /\ c.seen1.kind = "response"
               /\ c.seen2.kind = "response"
               /\ SameContent(c.seen1.response, c.seen2.response)


\* C16: when store_response(R, S1) has completed and then store_response(R, S2)
\* with another response S2, a retrieve_response(R) within the expiration
\* window of the second store is a hit with the status, headers and body of
\* S2, so that nothing of S1 shows.
C16_SequentialOverwrite ==
    LET c == proc["caller"]
    IN  (/\ c.pc = "done"
         /\ c.first # c.second
         /\ InWindow(c.second_time, c.seen2_time))
            => /\ c.seen2.kind = "response"
               /\ c.seen2.response.status = c.second.status
               /\ c.seen2.response.headers = c.second.headers
               /\ c.seen2.response.body = c.second.body


\* ------------------------------------------- construction
\* HttpCacheMiddleware.__init__ line by line.  proc holds the constructor's
\* position, the HTTPCACHE_DIR setting it is given, the attributes set so far
\* and the signals connected so far.  The handlers of the signals can run once
\* they are connected; process_request and process_response can run once the
\* constructor has returned the middleware to its caller.

\* settings['HTTPCACHE_DIR'] when the setting is absent: None.
NoneDir == "<None>"

CacheDirSettings == {NoneDir, "", CacheDir}

\* The test of line 57 written as "cachedir is None".
not_cachedir_is_none(cachedir) == cachedir = NoneDir

\* "not cachedir", line 57: None and the empty string are false.
not_cachedir(cachedir) == cachedir \in {NoneDir, ""}

NewMiddleware(cachedir) ==
    [pc |-> "line23", HTTPCACHE_DIR |-> cachedir, storage |-> FALSE,
     cachedir |-> "", connected |-> {}, raised |-> ""]

InitConfig ==
    /\ disk = [p \in Paths |-> NoDir]
    /\ now = 0
    /\ settings \in Settings
    /\ last = NoCall
    /\ stored = [p \in Paths |-> NeverStored]
    /\ proc \in {[w \in {"mw"} |-> NewMiddleware(cachedir)] : cachedir \in CacheDirSettings}

\* Line 23: the storage is constructed (lines 55-60); NotConfigured raised
\* there leaves __init__ as well, nothing catches it.
ConstructStorage ==
    LET m == proc["mw"]
    IN  /\ m.pc = "line23"
        /\ proc' = [proc EXCEPT !["mw"] =
                        IF not_cachedir(m.HTTPCACHE_DIR)
                        THEN [m EXCEPT !.pc = "raised", !.raised = "NotConfigured"]
                        ELSE [m EXCEPT !.pc = "line24", !.storage = TRUE,
                                       !.cachedir = m.HTTPCACHE_DIR]]
        /\ UNCHANGED <<disk, now, settings, last, stored>>

\* Line 24: self.ignore_missing
SetIgnoreMissing ==
    /\ proc["mw"].pc = "line24"
    /\ proc' = [proc EXCEPT !["mw"].pc = "line25"]
    /\ UNCHANGED <<disk, now, settings, last, stored>>

\* Line 25: dispatcher.connect(self.spider_opened, ...)
ConnectSpiderOpened ==
    /\ proc["mw"].pc = "line25"
    /\ proc' = [proc EXCEPT !["mw"].pc = "line26",
                            !["mw"].connected = @ \cup {"spider_opened"}]
    /\ UNCHANGED <<disk, now, settings, last, stored>>

\* Line 26: dispatcher.connect(self.spider_closed, ...); __init__ returns.
ConnectSpiderClosed ==
    /\ proc["mw"].pc = "line26"
    /\ proc' = [proc EXCEPT !["mw"].pc = "constructed",
                            !["mw"].connected = @ \cup {"spider_closed"}]
    /\ UNCHANGED <<disk, now, settings, last, stored>>

\* The dispatcher sends a signal to the handlers connected to it.
SignalSpiderOpened == "spider_opened" \in proc["mw"].connected /\ SpiderOpened
SignalSpiderClosed == "spider_closed" \in proc["mw"].connected /\ SpiderClosed

\* The downloader calls the middleware it was given by the constructor.
DownloaderProcessRequest == proc["mw"].pc = "constructed" /\ ProcessRequest
DownloaderProcessResponse == proc["mw"].pc = "constructed" /\ ProcessResponse

NextConfig ==
    \/ ConstructStorage \/ SetIgnoreMissing
    \/ ConnectSpiderOpened \/ ConnectSpiderClosed
    \/ SignalSpiderOpened \/ SignalSpiderClosed
    \/ DownloaderProcessRequest \/ DownloaderProcessResponse

SpecConfig == InitConfig /\ [][NextConfig]_vars

\* C14: once line 23 has run, the construction has failed exactly when
\* HTTPCACHE_DIR is absent or empty; it has then failed with NotConfigured,
\* with no storage and no signal connected, and no spider_opened,
\* spider_closed, process_request or process_response call has reached the
\* middleware or touched the disk.
C14_NotConfigured ==
    LET m == proc["mw"]
    IN  /\ (m.pc # "line23")
              => ((m.pc = "raised") <=> (m.HTTPCACHE_DIR \in {NoneDir, ""}))
        /\ (m.pc = "raised")
              => /\ m.raised = "NotConfigured"
                 /\ ~m.storage
                 /\ m.connected = {}
                 /\ last = NoCall
                 /\ disk = [p \in Paths |-> NoDir]
        /\ (last # NoCall) => (m.storage /\ m.cachedir = CacheDir)

\* The construction was given an empty HTTPCACHE_DIR and has failed.
C14_Witness ==
    /\ proc["mw"].pc = "raised"
    /\ proc["mw"].HTTPCACHE_DIR = ""
    /\ proc["mw"].raised = "NotConfigured"


\* C15: with a negative expiration_secs, every record that a store_response
\* has completed for is a hit of retrieve_response at every time from then
\* on, and process_request for it returns the cached response.
C15_NegativeNeverExpires ==
    (settings.expiration_secs < 0)
        => /\ \A spider \in Spiders, request \in Cacheable :
                 stored[get_request_path(spider, request)].done
                     => RetrieveNow(spider, request).kind = "response"
           /\ (/\ last.op = "process_request"
               /\ is_cacheable(last.request)
               /\ stored[get_request_path(last.spider, last.request)].done)
                  => last.out.kind = "response"

\* With a negative expiration_secs, a lookup at the latest time is a hit on a
\* record stored at the earliest.
C15_Witness ==
    /\ settings.expiration_secs < 0
    /\ now = MaxTime
    /\ last.op = "process_request"
    /\ last.out.kind = "response"
    /\ stored[get_request_path(last.spider, last.request)].done
    /\ stored[get_request_path(last.spider, last.request)].time = 0
    /\ disk[get_request_path(last.spider, last.request)].mtime = 0


\* ------------------------------------------- damage, with time passing
\* One request's record is stored, time() moves on, and a file of the record
\* is removed or cut short.

InitAlter ==
    /\ disk = [p \in Paths |-> NoDir]
    /\ now = 0
    /\ settings \in CallerSettings
    /\ last = NoCall
    /\ stored = [p \in Paths |-> NeverStored]
    /\ proc = <<>>

AlterProcessResponse ==
    \E spider \in Spiders, response \in Responses :
        DoProcessResponse(spider, ReqA, response)

NextAlter == Tick \/ AlterProcessResponse \/ Corrupt

SpecAlter == InitAlter /\ [][NextAlter]_vars

\* The files of a record that retrieve_response does not open.
UnreadFiles == {"meta", "request_headers", "request_body"}

\* C17: retrieve_response is a miss whenever pickled_meta is absent, whatever
\* other files exist; and removing or altering the meta, request_headers or
\* request_body file of a record leaves the result of retrieve_response at
\* that time as it was.
C17_OnlyThreeFilesRead ==
    [][/\ \A spider \in Spiders, request \in Cacheable :
              ~fs_exists_file(disk, get_request_path(spider, request), metapath_name)
                  => RetrieveNow(spider, request) = ReturnNone
       /\ \A spider \in Spiders, request \in Cacheable :
              LET rpath == get_request_path(spider, request)
              IN  (/\ stored[rpath].damaged = ""
                   /\ stored'[rpath].damaged \in UnreadFiles
                   /\ stored'[rpath].time = stored[rpath].time)
                      => RetrieveAt(disk', spider, request, now)
                            = RetrieveAt(disk, spider, request, now)
      ]_vars


\* C18: with expiration_secs >= 0, a record whose age, the time since its
\* latest completed store, is at most expiration_secs is a hit, and one whose
\* age is greater is a miss; with expiration_secs = 0, a retrieve_response at
\* the instant of the store is a hit and one at any later time a miss.
C18_StrictComparison ==
    \A spider \in Spiders, request \in Cacheable :
        LET st == stored[get_request_path(spider, request)]
            age == now - st.time
            out == RetrieveNow(spider, request)
        IN  (st.done /\ settings.expiration_secs >= 0)
                => /\ (age = settings.expiration_secs) => (out.kind = "response")
                   /\ (age > settings.expiration_secs) => (out = ReturnNone)
                   /\ (age < settings.expiration_secs) => (out.kind = "response")


====
